---- MODULE Spec2Model ----
(***************************************************************************)
(* Ollama Compass CLI: the API server's realtime broadcast loop            *)
(* (api-server.js, src/unnamed/part_002) and the hardware detector's       *)
(* snapshot cache (hardware-detector.js, src/unnamed/part_000).            *)
(*                                                                         *)
(* Node.js runs every handler to its first await without interruption, so  *)
(* one action is one handler (or the continuation of one await).           *)
(***************************************************************************)
EXTENDS Integers, Sequences, FiniteSets, TLC

\* ------------------------------------------------------------------ bounds
MaxClients == 2     \* WebSocket connections the server accepts in a run
MaxTicks   == 2     \* firings of the interval callback in a run
MaxTimerIds == 2    \* distinct Timeout handles that can be live at once
MaxReqs    == 2     \* full-analysis requests in a run

Clients   == 1..MaxClients
SampleIds == 1..MaxTicks
TimerIds  == 1..MaxTimerIds
Reqs      == 1..MaxReqs

\* the period given to setInterval, in ms
PERIOD_MS == 2000

NULL == 0

VARIABLES
  clients,           \* this.clients: the Set of attached sockets
  readyState,        \* ws.readyState of every socket
  realtimeInterval,  \* this.realtimeInterval: NULL or the Timeout handle
  timers,            \* the intervals registered with the event loop, not cleared
  tick,              \* position of every firing of the interval callback
  recv,              \* realtime_stats messages each socket was sent, in order
  server,            \* the http server: "running" | "stopped"
  pendingAtClose,    \* history: the polls in flight when the close of a CLOSING socket began
  lastCall,          \* history: what the handler that ran last did, when it is of note
  hw,                \* the machine as systeminformation would report it now
  task,              \* position of every detectHardware() call
  lastAnalysis,      \* hardwareDetector.lastAnalysis
  analysisTimestamp, \* hardwareDetector.analysisTimestamp
  response,          \* what every detectHardware() caller answered its client
  infoResp,          \* the answer of GET /api/hardware/info, while it is being sent
  call,              \* a call of one of the detector's synchronous methods: its arguments
  ret                \* what that call returned

wsVars == <<clients, readyState, realtimeInterval, timers, tick, recv, server,
            pendingAtClose>>

cacheVars == <<hw, task, lastAnalysis, analysisTimestamp, response>>

fnVars == <<call, ret>>

\* ticks fired so far; the firings are numbered in the order they happen
tickCount == Cardinality({s \in SampleIds : tick[s] # "none"})

\* the polls whose getRealtimeStats() has not settled yet
inflight == {s \in SampleIds : tick[s] = "pending"}

\* IDLE / ACTIVE of the broadcast loop
ACTIVE == realtimeInterval # NULL
IDLE   == realtimeInterval = NULL

\* history bookkeeping: the handler that runs now did `what` if `cond` holds now
Note(what, cond) == lastCall' = IF cond THEN what ELSE "other"

\* ---------------------------------------------------------- timer helpers
\* setInterval(cb, ms): a fresh Timeout handle registered with the event loop
NewTimerId == CHOOSE t \in TimerIds :
                /\ t \notin {x.id : x \in timers}
                /\ \A u \in TimerIds : u \notin {x.id : x \in timers} => t <= u

CanSetInterval == \E t \in TimerIds : t \notin {x.id : x \in timers}

\* clearInterval(handle)
clearInterval(h) == {x \in timers : x.id # h}

\* ------------------------------------------------- startRealtimeUpdates()
startRealtimeUpdatesNoGuard ==
  /\ CanSetInterval
  /\ timers' = timers \cup {[id |-> NewTimerId, ms |-> PERIOD_MS]}
  /\ realtimeInterval' = NewTimerId

startRealtimeUpdates ==
  IF realtimeInterval # NULL
    THEN UNCHANGED <<realtimeInterval, timers>>
    ELSE /\ CanSetInterval
         /\ timers' = timers \cup {[id |-> NewTimerId, ms |-> PERIOD_MS]}
         /\ realtimeInterval' = NewTimerId

\* -------------------------------------------------- stopRealtimeUpdates()
stopRealtimeUpdates ==
  IF realtimeInterval # NULL
    THEN /\ timers' = clearInterval(realtimeInterval)
         /\ realtimeInterval' = NULL
    ELSE UNCHANGED <<realtimeInterval, timers>>

\* ------------------------------------------------------ broadcast(message)
\* forEach client of this.clients: send when readyState === OPEN
broadcastFirstOnly(s) ==
  recv' = [c \in Clients |->
             IF /\ c \in clients /\ readyState[c] = "OPEN"
                /\ \A d \in clients : readyState[d] = "OPEN" => c <= d
               THEN Append(recv[c], s)
               ELSE recv[c]]

broadcastNoStateCheck(s) ==
  recv' = [c \in Clients |->
             IF c \in clients THEN Append(recv[c], s) ELSE recv[c]]

broadcast(s) ==
  recv' = [c \in Clients |->
             IF c \in clients /\ readyState[c] = "OPEN"
               THEN Append(recv[c], s)
               ELSE recv[c]]

\* ---------------------------------------------- wss.on('connection', ...)
ConnectAutoStart(c) ==
  /\ UNCHANGED <<cacheVars, infoResp, fnVars>>
  /\ server = "running"
  /\ readyState[c] = "NEW"
  /\ readyState' = [readyState EXCEPT ![c] = "OPEN"]
  /\ clients' = clients \cup {c}
  /\ startRealtimeUpdates
  /\ lastCall' = "other"
  /\ UNCHANGED <<tick, recv, server, pendingAtClose>>

\* this.clients.add(ws); sendInitialData(ws) sends no realtime_stats
Connect(c) ==
  /\ UNCHANGED <<cacheVars, infoResp, fnVars>>
  /\ server = "running"
  /\ readyState[c] = "NEW"
  /\ readyState' = [readyState EXCEPT ![c] = "OPEN"]
  /\ clients' = clients \cup {c}
  /\ lastCall' = "other"
  /\ UNCHANGED <<realtimeInterval, timers, tick, recv, server, pendingAtClose>>

\* the peer's close frame arrives: the socket leaves OPEN; its 'close' event
\* is emitted later, once the TCP connection has ended
BeginClose(c) ==
  /\ UNCHANGED <<cacheVars, infoResp, fnVars>>
  /\ readyState[c] = "OPEN"
  /\ readyState' = [readyState EXCEPT ![c] = "CLOSING"]
  /\ pendingAtClose' = [pendingAtClose EXCEPT ![c] = inflight]
  /\ lastCall' = "other"
  /\ UNCHANGED <<clients, realtimeInterval, timers, tick, recv, server>>

\* ------------------------------------------------------ ws.on('close', ...)
OnCloseKeepTimer(c) ==
  /\ UNCHANGED <<cacheVars, infoResp, fnVars>>
  /\ readyState[c] = "CLOSING"
  /\ readyState' = [readyState EXCEPT ![c] = "CLOSED"]
  /\ clients' = clients \ {c}
  /\ pendingAtClose' = [pendingAtClose EXCEPT ![c] = {}]
  /\ Note("last_detach_stop", clients \ {c} = {} /\ realtimeInterval # NULL)
  /\ UNCHANGED <<realtimeInterval, timers, tick, recv, server>>

OnCloseAlwaysStop(c) ==
  /\ UNCHANGED <<cacheVars, infoResp, fnVars>>
  /\ readyState[c] = "CLOSING"
  /\ readyState' = [readyState EXCEPT ![c] = "CLOSED"]
  /\ clients' = clients \ {c}
  /\ stopRealtimeUpdates
  /\ pendingAtClose' = [pendingAtClose EXCEPT ![c] = {}]
  /\ Note("last_detach_stop", clients \ {c} = {} /\ realtimeInterval # NULL)
  /\ UNCHANGED <<tick, recv, server>>

\* this.clients.delete(ws); if (this.clients.size === 0 && this.realtimeInterval)
\* { clearInterval(this.realtimeInterval); this.realtimeInterval = null; }
OnClose(c) ==
  /\ UNCHANGED <<cacheVars, infoResp, fnVars>>
  /\ readyState[c] = "CLOSING"
  /\ readyState' = [readyState EXCEPT ![c] = "CLOSED"]
  /\ clients' = clients \ {c}
  /\ IF clients' = {} /\ realtimeInterval # NULL
       THEN /\ timers' = clearInterval(realtimeInterval)
            /\ realtimeInterval' = NULL
       ELSE UNCHANGED <<realtimeInterval, timers>>
  /\ pendingAtClose' = [pendingAtClose EXCEPT ![c] = {}]
  /\ Note("last_detach_stop", clients \ {c} = {} /\ realtimeInterval # NULL)
  /\ UNCHANGED <<tick, recv, server>>

\* --------------------------- ws.on('message') -> handleWebSocketMessage
\* messages arrive only from a socket that is OPEN
\* case 'start_realtime'
StartRealtimeMsg(c) ==
  /\ UNCHANGED <<cacheVars, infoResp, fnVars>>
  /\ c \in clients /\ readyState[c] = "OPEN"
  /\ startRealtimeUpdates
  /\ Note("start_noop", realtimeInterval # NULL)
  /\ UNCHANGED <<clients, readyState, tick, recv, server, pendingAtClose>>

\* case 'stop_realtime'
StopRealtimeMsg(c) ==
  /\ UNCHANGED <<cacheVars, infoResp, fnVars>>
  /\ c \in clients /\ readyState[c] = "OPEN"
  /\ stopRealtimeUpdates
  /\ Note("stop_noop", realtimeInterval = NULL)
  /\ UNCHANGED <<clients, readyState, tick, recv, server, pendingAtClose>>

\* ------------------------------------------- the setInterval callback
\* a registered interval fires: the callback calls getRealtimeStats() and
\* suspends at the await
Tick(t) ==
  /\ UNCHANGED <<cacheVars, infoResp, fnVars>>
  /\ t \in timers
  /\ tickCount < MaxTicks
  /\ tick' = [tick EXCEPT ![tickCount + 1] = "pending"]
  /\ lastCall' = "other"
  /\ UNCHANGED <<clients, readyState, realtimeInterval, timers, recv, server,
                 pendingAtClose>>

\* getRealtimeStats() resolved with a sample: if (stats) this.broadcast(...)
PollOk(s) ==
  /\ UNCHANGED <<cacheVars, infoResp, fnVars>>
  /\ tick[s] = "pending"
  /\ tick' = [tick EXCEPT ![s] = "sent"]
  /\ broadcast(s)
  /\ lastCall' = "other"
  /\ UNCHANGED <<clients, readyState, realtimeInterval, timers, server,
                 pendingAtClose>>

\* a systeminformation call rejected: getRealtimeStats() caught it and
\* resolved with null, so the callback skips the broadcast
PollFailStops(s) ==
  /\ UNCHANGED <<cacheVars, infoResp, fnVars>>
  /\ tick[s] = "pending"
  /\ tick' = [tick EXCEPT ![s] = "dropped"]
  /\ stopRealtimeUpdates
  /\ lastCall' = "poll_dropped"
  /\ UNCHANGED <<clients, readyState, recv, server, pendingAtClose>>

PollFail(s) ==
  /\ UNCHANGED <<cacheVars, infoResp, fnVars>>
  /\ tick[s] = "pending"
  /\ tick' = [tick EXCEPT ![s] = "dropped"]
  /\ lastCall' = "poll_dropped"
  /\ UNCHANGED <<clients, readyState, realtimeInterval, timers, recv, server,
                 pendingAtClose>>

\* ------------------------------------------------------------------ stop()
Stop ==
  /\ UNCHANGED <<cacheVars, infoResp, fnVars>>
  /\ server = "running"
  /\ server' = "stopped"
  /\ stopRealtimeUpdates
  /\ Note("stop_noop", realtimeInterval = NULL)
  /\ UNCHANGED <<clients, readyState, tick, recv, pendingAtClose>>


\* ========================================================================
\* The hardware detector (hardware-detector.js)
\* ========================================================================
\* A JavaScript string is the sequence of its characters.
UpperLetters == <<"A", "B", "C", "D", "E", "F", "G", "H", "I", "J", "K", "L", "M", "N", "O", "P", "Q", "R", "S", "T", "U", "V", "W", "X", "Y", "Z">>
LowerLetters == <<"a", "b", "c", "d", "e", "f", "g", "h", "i", "j", "k", "l", "m", "n", "o", "p", "q", "r", "s", "t", "u", "v", "w", "x", "y", "z">>
DigitChars   == <<"0", "1", "2", "3", "4", "5", "6", "7", "8", "9">>

IndexOf(ch, q) == CHOOSE i \in 1..Len(q) : q[i] = ch
Has(ch, q)     == \E i \in 1..Len(q) : q[i] = ch

\* String.prototype.toLowerCase / toUpperCase
toLowerCase(str) ==
  [i \in 1..Len(str) |->
     IF Has(str[i], UpperLetters) THEN LowerLetters[IndexOf(str[i], UpperLetters)]
                                  ELSE str[i]]
toUpperCase(str) ==
  [i \in 1..Len(str) |->
     IF Has(str[i], LowerLetters) THEN UpperLetters[IndexOf(str[i], LowerLetters)]
                                  ELSE str[i]]

\* String.prototype.includes
includes(str, sub) ==
  \E i \in 1..(Len(str) - Len(sub) + 1) : SubSeq(str, i, i + Len(sub) - 1) = sub

\* ------------------------------------------------------------- numbers
\* The numbers the detector handles are non-negative; the two values of
\* JavaScript that are no such number are kept below zero.  `undefined` is
\* what reading an absent field gives, NaN is what arithmetic on it gives.
NaN == 0 - 1
undefined == 0 - 2

IsNum(x) == x >= 0

\* a + b, a * b
Plus(a, b)  == IF IsNum(a) /\ IsNum(b) THEN a + b ELSE NaN
Times(a, b) == IF IsNum(a) /\ IsNum(b) THEN a * b ELSE NaN

\* x || dflt for a number x: 0, NaN and undefined are falsy
OrElse(x, dflt) == IF IsNum(x) /\ x # 0 THEN x ELSE dflt

\* `${n}`
RECURSIVE NumToStr(_)
NumToStr(n) ==
  IF n = undefined THEN <<"u", "n", "d", "e", "f", "i", "n", "e", "d">>
  ELSE IF n = NaN THEN <<"N", "a", "N">>
  ELSE IF n < 10 THEN <<DigitChars[n + 1]>>
  ELSE NumToStr(n \div 10) \o <<DigitChars[(n % 10) + 1]>>

\* Math.round(n / d) for n >= 0, d > 0: the nearest integer, halves upwards
RoundDiv(n, d) == (2 * n + d) \div (2 * d)

\* Math.round(n / d) of any n: NaN stays NaN
MathRound(n, d) == IF IsNum(n) THEN RoundDiv(n, d) ELSE NaN

Min(a, b) == IF a <= b THEN a ELSE b

\* Math.min(a, b): NaN when either is no number
MathMin(a, b) == IF IsNum(a) /\ IsNum(b) THEN Min(a, b) ELSE NaN

\* ------------------------------------------------ Buffer / base64
\* the byte of an ASCII character (Buffer.from(str) of an ASCII string)
CharCode(ch) ==
  IF Has(ch, DigitChars)   THEN 47 + IndexOf(ch, DigitChars)
  ELSE IF Has(ch, UpperLetters) THEN 64 + IndexOf(ch, UpperLetters)
  ELSE IF Has(ch, LowerLetters) THEN 96 + IndexOf(ch, LowerLetters)
  ELSE IF ch = " " THEN 32
  ELSE IF ch = "-" THEN 45
  ELSE 63

Base64Alphabet == UpperLetters \o LowerLetters \o DigitChars \o <<"+", "/">>

\* buf.toString('base64'): 3 bytes give 4 characters, '=' pads the last group
RECURSIVE Base64(_)
Base64(bytes) ==
  IF Len(bytes) = 0 THEN <<>>
  ELSE LET b1 == bytes[1]
           b2 == IF Len(bytes) >= 2 THEN bytes[2] ELSE 0
           b3 == IF Len(bytes) >= 3 THEN bytes[3] ELSE 0
           n  == b1 * 65536 + b2 * 256 + b3
           c1 == Base64Alphabet[(n \div 262144) + 1]
           c2 == Base64Alphabet[((n \div 4096) % 64) + 1]
           c3 == IF Len(bytes) >= 2 THEN Base64Alphabet[((n \div 64) % 64) + 1] ELSE "="
           c4 == IF Len(bytes) >= 3 THEN Base64Alphabet[(n % 64) + 1] ELSE "="
       IN  <<c1, c2, c3, c4>> \o
           (IF Len(bytes) > 3 THEN Base64(SubSeq(bytes, 4, Len(bytes))) ELSE <<>>)

\* str.substring(0, n)
substring0(str, n) == SubSeq(str, 1, Min(n, Len(str)))

FINGERPRINT_LEN == 16

\* --------------------------------------------------- heuristic classifiers
T_nvidia == <<"n", "v", "i", "d", "i", "a">>
T_geforce == <<"g", "e", "f", "o", "r", "c", "e">>
T_rtx == <<"r", "t", "x">>
T_gtx == <<"g", "t", "x">>
T_quadro == <<"q", "u", "a", "d", "r", "o">>
T_integrated == <<"i", "n", "t", "e", "g", "r", "a", "t", "e", "d">>
T_radeon == <<"r", "a", "d", "e", "o", "n">>
T_graphics == <<"g", "r", "a", "p", "h", "i", "c", "s">>
T_rx == <<"r", "x", " ">>
T_vega == <<"v", "e", "g", "a">>
T_amd == <<"a", "m", "d">>
T_ati == <<"a", "t", "i">>
T_arc == <<"a", "r", "c">>
T_intel == <<"i", "n", "t", "e", "l">>
T_apple == <<"a", "p", "p", "l", "e">>
T_m1 == <<"m", "1">>
T_m2 == <<"m", "2">>
T_m3 == <<"m", "3">>
T_mobile == <<"m", "o", "b", "i", "l", "e">>
T_Unknown == <<"U", "n", "k", "n", "o", "w", "n">>
T_UnknownGPU == <<"U", "n", "k", "n", "o", "w", "n", " ", "G", "P", "U">>
T_IntegratedGraphics == <<"I", "n", "t", "e", "g", "r", "a", "t", "e", "d", " ", "G", "r", "a", "p", "h", "i", "c", "s">>
T_SSD == <<"S", "S", "D">>
T_HDD == <<"H", "D", "D">>
T_DDR3 == <<"D", "D", "R", "3">>
T_DDR4 == <<"D", "D", "R", "4">>
T_DDR5 == <<"D", "D", "R", "5">>

\* the known-model table of getGPUVRAM, in source order: <<token, GB>>
VramTable ==
  << <<<<"g", "a", "1", "0", "7", "m">>, 4>>, <<<<"3", "0", "5", "0", " ", "t", "i">>, 4>>, <<<<"3", "0", "6", "0">>, 6>>, <<<<"3", "0", "7", "0">>, 8>>,
     <<<<"3", "0", "8", "0">>, 10>>, <<<<"4", "0", "6", "0">>, 8>>, <<<<"4", "0", "7", "0">>, 12>>, <<<<"4", "0", "8", "0">>, 16>>,
     <<<<"r", "x", " ", "6", "6", "0", "0">>, 8>>, <<<<"r", "x", " ", "6", "7", "0", "0">>, 12>>, <<<<"r", "x", " ", "6", "8", "0", "0">>, 16>>, <<T_arc, 6>> >>

VRAM_NOISE_FLOOR_MB == 512

extractGPUBrandIntelFirst(vendor) ==
  IF vendor = <<>> THEN T_Unknown
  ELSE LET v == toLowerCase(vendor) IN
    IF includes(v, T_nvidia) \/ includes(v, T_geforce) THEN <<"N", "V", "I", "D", "I", "A">>
    ELSE IF includes(v, T_intel) /\ ~includes(v, T_nvidia) THEN <<"I", "n", "t", "e", "l">>
    ELSE IF includes(v, T_amd) \/ includes(v, T_ati) \/ includes(v, T_radeon) THEN <<"A", "M", "D">>
    ELSE IF includes(v, T_apple) THEN <<"A", "p", "p", "l", "e">>
    ELSE vendor

\* extractGPUBrand(vendor): `vendor` is gpu.vendor || gpu.model, <<>> if absent
extractGPUBrand(vendor) ==
  IF vendor = <<>> THEN T_Unknown
  ELSE LET v == toLowerCase(vendor) IN
    IF includes(v, T_nvidia) \/ includes(v, T_geforce) THEN <<"N", "V", "I", "D", "I", "A">>
    ELSE IF includes(v, T_amd) \/ includes(v, T_ati) \/ includes(v, T_radeon) THEN <<"A", "M", "D">>
    ELSE IF includes(v, T_intel) /\ ~includes(v, T_nvidia) THEN <<"I", "n", "t", "e", "l">>
    ELSE IF includes(v, T_apple) THEN <<"A", "p", "p", "l", "e">>
    ELSE vendor

getGPUVRAMRawFirst(gpu) ==
  LET model  == toLowerCase(gpu.model)
      vendor == toLowerCase(gpu.vendor)
      hits   == {i \in 1..Len(VramTable) : includes(model, VramTable[i][1])}
  IN  IF gpu.vram > VRAM_NOISE_FLOOR_MB THEN RoundDiv(gpu.vram, 1024)
      ELSE IF hits # {}
        THEN VramTable[CHOOSE i \in hits : \A j \in hits : i <= j][2]
      ELSE IF includes(vendor, T_nvidia) /\ includes(model, T_mobile) THEN 4
      ELSE IF includes(vendor, T_nvidia) /\ includes(model, T_geforce) THEN 4
      ELSE IF gpu.memoryTotal > VRAM_NOISE_FLOOR_MB THEN RoundDiv(gpu.memoryTotal, 1024)
      ELSE 0

\* getGPUVRAM(gpu)
getGPUVRAM(gpu) ==
  LET model  == toLowerCase(gpu.model)
      vendor == toLowerCase(gpu.vendor)
      hits   == {i \in 1..Len(VramTable) : includes(model, VramTable[i][1])}
  IN  IF hits # {}
        THEN VramTable[CHOOSE i \in hits : \A j \in hits : i <= j][2]
      ELSE IF includes(vendor, T_nvidia) /\ includes(model, T_mobile) THEN 4
      ELSE IF includes(vendor, T_nvidia) /\ includes(model, T_geforce) THEN 4
      ELSE IF gpu.vram > VRAM_NOISE_FLOOR_MB THEN RoundDiv(gpu.vram, 1024)
      ELSE IF gpu.memoryTotal > VRAM_NOISE_FLOOR_MB THEN RoundDiv(gpu.memoryTotal, 1024)
      ELSE 0

determineGPUTypeAppleFirst(model, vendor) ==
  IF model = <<>> THEN "integrated"
  ELSE LET m == toLowerCase(model)
           v == toLowerCase(vendor)
       IN
    IF includes(m, T_apple) \/ includes(m, T_m1) \/ includes(m, T_m2)
         \/ includes(m, T_m3) THEN "apple_unified"
    ELSE IF includes(m, T_geforce) \/ includes(m, T_rtx) \/ includes(m, T_gtx)
         \/ includes(m, T_quadro) THEN "dedicated"
    ELSE IF includes(v, T_nvidia) /\ ~includes(m, T_integrated) THEN "dedicated"
    ELSE IF includes(m, T_radeon) /\ ~includes(m, T_graphics) THEN "dedicated"
    ELSE IF includes(m, T_rx) \/ includes(m, T_vega) THEN "dedicated"
    ELSE IF includes(v, T_amd) /\ ~includes(m, T_integrated) THEN "dedicated"
    ELSE IF includes(m, T_arc) THEN "dedicated"
    ELSE "integrated"

\* determineGPUType(model, vendor)
determineGPUType(model, vendor) ==
  IF model = <<>> THEN "integrated"
  ELSE LET m == toLowerCase(model)
           v == toLowerCase(vendor)
       IN
    IF includes(m, T_geforce) \/ includes(m, T_rtx) \/ includes(m, T_gtx)
         \/ includes(m, T_quadro) THEN "dedicated"
    ELSE IF includes(v, T_nvidia) /\ ~includes(m, T_integrated) THEN "dedicated"
    ELSE IF includes(m, T_radeon) /\ ~includes(m, T_graphics) THEN "dedicated"
    ELSE IF includes(m, T_rx) \/ includes(m, T_vega) THEN "dedicated"
    ELSE IF includes(v, T_amd) /\ ~includes(m, T_integrated) THEN "dedicated"
    ELSE IF includes(m, T_arc) THEN "dedicated"
    ELSE IF includes(m, T_apple) \/ includes(m, T_m1) \/ includes(m, T_m2)
              \/ includes(m, T_m3) THEN "apple_unified"
    ELSE "integrated"

detectMemoryTypeExclusive(memLayout) ==
  IF Len(memLayout) = 0 THEN T_Unknown
  ELSE LET firstModule == memLayout[1] IN
    IF firstModule.type # <<>> THEN toUpperCase(firstModule.type)
    ELSE IF firstModule.clockSpeed > 4800 THEN T_DDR5
    ELSE IF firstModule.clockSpeed > 2133 THEN T_DDR4
    ELSE IF firstModule.clockSpeed > 800 THEN T_DDR3
    ELSE T_DDR4

\* detectMemoryType(memLayout): a module's type is <<>> when not reported
detectMemoryType(memLayout) ==
  IF Len(memLayout) = 0 THEN T_Unknown
  ELSE LET firstModule == memLayout[1] IN
    IF firstModule.type # <<>> THEN toUpperCase(firstModule.type)
    ELSE IF firstModule.clockSpeed >= 4800 THEN T_DDR5
    ELSE IF firstModule.clockSpeed >= 2133 THEN T_DDR4
    ELSE IF firstModule.clockSpeed >= 800 THEN T_DDR3
    ELSE T_DDR4

\* detectMemorySpeed(memLayout)
detectMemorySpeed(memLayout) ==
  IF Len(memLayout) = 0 THEN 0 ELSE OrElse(memLayout[1].clockSpeed, 0)

calculatePerformanceScoresGpuUnclamped(cpu, memory, gpu, storage) ==
  LET cpuScore == MathMin(10000, Plus(Plus(Times(cpu.logicalCores, 500),
                                               Times(cpu.baseFrequencyGHz, 100)),
                                          Times(cpu.cacheSizeMB, 50)))
      memoryScore == MathMin(10000, Plus(Times(memory.totalMemoryGB, 400),
                                         memory.memorySpeedMHz))
      gpuRaw == IF gpu.type = "dedicated" THEN Plus(6000, Times(gpu.vramGB, 400))
                ELSE IF gpu.type = "apple_unified" THEN Plus(5000, Times(gpu.vramGB, 300))
                ELSE 3000
      gpuScore == gpuRaw
      storageScore == IF storage.type = T_SSD THEN 8500 ELSE 6000
      overallScore == MathRound(Plus(Plus(Times(cpuScore, 35), Times(memoryScore, 25)),
                                     Plus(Times(gpuScore, 30), Times(storageScore, 10))),
                                10000)
  IN  [overallScore |-> overallScore,
       cpuScore     |-> MathRound(cpuScore, 100),
       memoryScore  |-> MathRound(memoryScore, 100),
       gpuScore     |-> MathRound(gpuScore, 100),
       storageScore |-> MathRound(storageScore, 100)]

\* ------------------------------------------------------ performance scorer
\* calculatePerformanceScores(cpu, memory, gpu, storage).  The unrounded
\* scores are kept in hundredths; baseFrequencyGHz is kept in tenths of a GHz.
calculatePerformanceScores(cpu, memory, gpu, storage) ==
  LET cpuScore == MathMin(10000, Plus(Plus(Times(cpu.logicalCores, 500),
                                               Times(cpu.baseFrequencyGHz, 100)),
                                          Times(cpu.cacheSizeMB, 50)))
      memoryScore == MathMin(10000, Plus(Times(memory.totalMemoryGB, 400),
                                         memory.memorySpeedMHz))
      gpuRaw == IF gpu.type = "dedicated" THEN Plus(6000, Times(gpu.vramGB, 400))
                ELSE IF gpu.type = "apple_unified" THEN Plus(5000, Times(gpu.vramGB, 300))
                ELSE 3000
      gpuScore == MathMin(10000, gpuRaw)
      storageScore == IF storage.type = T_SSD THEN 8500 ELSE 6000
      overallScore == MathRound(Plus(Plus(Times(cpuScore, 35), Times(memoryScore, 25)),
                                     Plus(Times(gpuScore, 30), Times(storageScore, 10))),
                                10000)
  IN  [overallScore |-> overallScore,
       cpuScore     |-> MathRound(cpuScore, 100),
       memoryScore  |-> MathRound(memoryScore, 100),
       gpuScore     |-> MathRound(gpuScore, 100),
       storageScore |-> MathRound(storageScore, 100)]

calculateHardwareTierExclusive(overallScore) ==
  IF overallScore > 80 THEN "HIGH"
  ELSE IF overallScore > 60 THEN "MEDIUM"
  ELSE IF overallScore > 40 THEN "LOW"
  ELSE "VERY_LOW"

\* calculateHardwareTier(overallScore)
calculateHardwareTier(overallScore) ==
  IF overallScore >= 80 THEN "HIGH"
  ELSE IF overallScore >= 60 THEN "MEDIUM"
  ELSE IF overallScore >= 40 THEN "LOW"
  ELSE "VERY_LOW"

\* ------------------------------------------------------ inventory records
\* What systeminformation reports.  Sizes that the source takes in bytes and
\* divides by 1024^3 are kept in KiB and divided by 1024^2.
KiBPerGiB == 1048576
BytesPerMiB == 1048576

\* a workstation with an external NVIDIA card plugged in
HW_docked ==
  [cpu |-> [brand |-> <<"I", "n", "t", "e", "l">>, cores |-> 8, physicalCores |-> 4, speed |-> 30,
            cache |-> [l1d |-> 524288, l1i |-> 524288, l2 |-> 4194304, l3 |-> 11534336]],
   mem |-> [total |-> 32 * KiBPerGiB],
   memLayout |-> << [type |-> <<"d", "d", "r", "4">>, clockSpeed |-> 3200] >>,
   controllers |-> << [vendor |-> <<"I", "n", "t", "e", "l">>, model |-> <<"U", "H", "D", " ", "G", "r", "a", "p", "h", "i", "c", "s", " ", "6", "3", "0">>,
                       vram |-> 1024, memoryTotal |-> 0],
                      [vendor |-> <<"N", "V", "I", "D", "I", "A">>, model |-> <<"G", "e", "F", "o", "r", "c", "e", " ", "R", "T", "X", " ", "3", "0", "7", "0">>,
                       vram |-> 4096, memoryTotal |-> 0] >>,
   diskLayout |-> << [type |-> <<"S", "S", "D">>, size |-> 512 * KiBPerGiB] >>,
   fsSize |-> << [available |-> 200 * KiBPerGiB] >>,
   platform |-> <<"l", "i", "n", "u", "x">>]

\* the same workstation with the card unplugged and slower memory modules
HW_undocked ==
  [cpu |-> [brand |-> <<"I", "n", "t", "e", "l">>, cores |-> 8, physicalCores |-> 4, speed |-> 30,
            cache |-> [l1d |-> 524288, l1i |-> 524288, l2 |-> 4194304, l3 |-> 11534336]],
   mem |-> [total |-> 32 * KiBPerGiB],
   memLayout |-> << [type |-> <<>>, clockSpeed |-> 2400] >>,
   controllers |-> << [vendor |-> <<"I", "n", "t", "e", "l">>, model |-> <<"U", "H", "D", " ", "G", "r", "a", "p", "h", "i", "c", "s", " ", "6", "3", "0">>,
                       vram |-> 1024, memoryTotal |-> 0] >>,
   diskLayout |-> << [type |-> <<"H", "D">>, size |-> 512 * KiBPerGiB] >>,
   fsSize |-> << [available |-> 200 * KiBPerGiB] >>,
   platform |-> <<"l", "i", "n", "u", "x">>]

\* a small machine that reports no graphics controller and no disk
HW_bare ==
  [cpu |-> [brand |-> <<"A", "R", "M">>, cores |-> 4, physicalCores |-> 4, speed |-> 15,
            cache |-> [l1d |-> 0, l1i |-> 0, l2 |-> 1048576, l3 |-> 0]],
   mem |-> [total |-> 4 * KiBPerGiB],
   memLayout |-> << >>,
   controllers |-> << >>,
   diskLayout |-> << >>,
   fsSize |-> << >>,
   platform |-> <<"l", "i", "n", "u", "x">>]

Hardware == <<HW_docked, HW_undocked, HW_bare>>
HwIds == 1..Len(Hardware)

\* the errors a systeminformation call can reject with
Causes == {"ETIMEDOUT", "ENOENT"}

\* --------------------------------------------------- detectHardware pieces
\* cpuInfo
cpuInfo(cpu) ==
  [brand |-> IF cpu.brand # <<>> THEN cpu.brand ELSE T_Unknown,
   physicalCores |-> OrElse(cpu.physicalCores, cpu.cores),
   logicalCores |-> cpu.cores,
   baseFrequencyGHz |-> OrElse(cpu.speed, 0),
   cacheSizeMB |-> OrElse(MathRound(Plus(Plus(cpu.cache.l1d, cpu.cache.l1i),
                                         Plus(cpu.cache.l2, cpu.cache.l3)),
                                    BytesPerMiB), 0)]

\* memoryInfo
memoryInfo(mem, memLayout) ==
  [totalMemoryGB |-> MathRound(mem.total, KiBPerGiB),
   memoryType |-> detectMemoryType(memLayout),
   memorySpeedMHz |-> detectMemorySpeed(memLayout),
   modules |-> Len(memLayout)]

\* allGPUs: graphics.controllers.map(...)
allGPUs(controllers) ==
  [i \in 1..Len(controllers) |->
     LET gpu == controllers[i] IN
     [brand |-> extractGPUBrand(IF gpu.vendor # <<>> THEN gpu.vendor ELSE gpu.model),
      model |-> IF gpu.model # <<>> THEN gpu.model ELSE T_UnknownGPU,
      vramGB |-> getGPUVRAM(gpu),
      type |-> determineGPUType(gpu.model, gpu.vendor)]]

gpuCompareVramOnly(a, b) == b.vramGB - a.vramGB

\* the comparator given to sort: negative when a goes before b
gpuCompare(a, b) ==
  IF a.type = "dedicated" /\ b.type # "dedicated" THEN 0 - 1
  ELSE IF b.type = "dedicated" /\ a.type # "dedicated" THEN 1
  ELSE b.vramGB - a.vramGB

\* Array.prototype.sort is stable: x goes before the first element that the
\* comparator puts after it
InsertGPU(x, sorted) ==
  LET after == {i \in 1..Len(sorted) : gpuCompare(sorted[i], x) > 0}
      k == IF after = {} THEN Len(sorted) + 1
           ELSE CHOOSE i \in after : \A j \in after : i <= j
  IN  SubSeq(sorted, 1, k - 1) \o <<x>> \o SubSeq(sorted, k, Len(sorted))

RECURSIVE sortGPUs(_)
sortGPUs(gpus) ==
  IF Len(gpus) = 0 THEN <<>>
  ELSE InsertGPU(gpus[Len(gpus)], sortGPUs(SubSeq(gpus, 1, Len(gpus) - 1)))

\* storageInfo: diskLayout.map(...)
storageInfo(diskLayout) ==
  [i \in 1..Len(diskLayout) |->
     [type |-> IF diskLayout[i].type = T_SSD THEN T_SSD ELSE T_HDD,
      sizeGB |-> MathRound(diskLayout[i].size, KiBPerGiB)]]

\* storageInfo.reduce((sum, disk) => sum + disk.sizeGB, 0)
RECURSIVE sumSizeGB(_)
sumSizeGB(q) ==
  IF Len(q) = 0 THEN 0
  ELSE Plus(sumSizeGB(SubSeq(q, 1, Len(q) - 1)), q[Len(q)].sizeGB)

\* fsSize.reduce((sum, fs) => sum + fs.available, 0)
RECURSIVE sumAvailable(_)
sumAvailable(q) ==
  IF Len(q) = 0 THEN 0
  ELSE Plus(sumAvailable(SubSeq(q, 1, Len(q) - 1)), q[Len(q)].available)

\* getAvailableStorage(): 0 when si.fsSize() rejects or reports nothing
getAvailableStorage(fsSize, failed) ==
  IF failed \/ Len(fsSize) = 0 THEN 0
  ELSE MathRound(sumAvailable(fsSize), KiBPerGiB)

hardwareFingerprintWithClock(cpu, memory, gpus, system) ==
  LET fingerprintData ==
        NumToStr(cpu.baseFrequencyGHz) \o <<"-">> \o NumToStr(cpu.logicalCores)
          \o <<"-">> \o NumToStr(memory.totalMemoryGB)
          \o <<"-">> \o (IF Len(gpus) > 0 /\ gpus[1].model # <<>>
                           THEN gpus[1].model ELSE T_integrated)
          \o <<"-">> \o system.os
      bytes == [i \in 1..Len(fingerprintData) |-> CharCode(fingerprintData[i])]
  IN  substring0(Base64(bytes), FINGERPRINT_LEN)

\* the hardware fingerprint
hardwareFingerprint(cpu, memory, gpus, system) ==
  LET fingerprintData ==
        NumToStr(cpu.logicalCores) \o <<"-">> \o NumToStr(memory.totalMemoryGB)
          \o <<"-">> \o (IF Len(gpus) > 0 /\ gpus[1].model # <<>>
                           THEN gpus[1].model ELSE T_integrated)
          \o <<"-">> \o system.os
      bytes == [i \in 1..Len(fingerprintData) |-> CharCode(fingerprintData[i])]
  IN  substring0(Base64(bytes), FINGERPRINT_LEN)

\* the {} passed for gpuInfo[0] || {} and for storageInfo[0] || {}: its type
\* is undefined and equals no type name
EmptyGpu  == [type |-> "undefined", vramGB |-> 0]
EmptyDisk == [type |-> <<>>]

\* the analysis object built by detectHardware from the inventory `inv`
\* read by Promise.all, the memory layout read later, the free space and
\* the clock
BuildAnalysis(inv, memLayout, availableSpaceGB, now) ==
  LET cpu     == cpuInfo(inv.cpu)
      memory  == memoryInfo(inv.mem, memLayout)
      gpus    == sortGPUs(allGPUs(inv.controllers))
      storage == storageInfo(inv.diskLayout)
      system  == [os |-> inv.platform]
      scores  == calculatePerformanceScores(
                   cpu, memory,
                   IF Len(gpus) > 0 THEN gpus[1] ELSE EmptyGpu,
                   IF Len(storage) > 0 THEN storage[1] ELSE EmptyDisk)
  IN  [hardwareFingerprint |-> hardwareFingerprint(cpu, memory, gpus, system),
       hardwareSpecs |->
         [cpu |-> cpu,
          memory |-> memory,
          gpu |-> IF Len(gpus) > 0 THEN gpus[1]
                  ELSE [brand |-> T_Unknown, model |-> T_IntegratedGraphics,
                        vramGB |-> 0, type |-> "integrated"],
          storage |-> [totalSpaceGB |-> sumSizeGB(storage),
                       availableSpaceGB |-> availableSpaceGB,
                       storageType |-> IF Len(storage) > 0 THEN storage[1].type ELSE T_SSD,
                       drives |-> storage],
          system |-> system],
       performanceScores |-> scores,
       hardwareTier |-> calculateHardwareTier(scores.overallScore),
       analysisTimestamp |-> now]

\* ------------------------------------------------------- snapshot cache
\* null
Null == [isNull |-> TRUE]

NoResponse == [pending |-> TRUE]

IdleTask == [pc |-> "idle", by |-> "none", inv |-> 0, memLayout |-> 0, thrown |-> "none"]

\* new Date(): the clock advances with every completed analysis
now == 1 + Cardinality({r \in Reqs : task[r].pc = "ok"})

\* the calls of detectHardware() that are suspended at an await
running == {r \in Reqs : task[r].pc \in {"inventory", "memLayout", "fsSize"}}

\* the Error thrown by the catch block of detectHardware: its message
detectionFailed(cause) == <<"Hardware detection failed: ", cause>>

\* what the caller sends when detectHardware() resolved with `analysis`:
\* GET /api/hardware/analyze, or the get_hardware message of a socket
replySuccess(by, analysis) ==
  IF by = "http" THEN [status |-> 200, success |-> TRUE, data |-> analysis]
                 ELSE [type |-> "hardware_info", data |-> analysis]

\* what the caller sends when detectHardware() rejected with `message`
replyFailure(by, message) ==
  IF by = "http" THEN [status |-> 500, success |-> FALSE, error |-> message]
                 ELSE [type |-> "error", message |-> message]

\* GET /api/hardware/info
getCachedAnalysis ==
  IF lastAnalysis # Null
    THEN [status |-> 200, success |-> TRUE, data |-> lastAnalysis]
    ELSE [status |-> 404, success |-> FALSE,
          error |-> "No hardware analysis available. Run /api/hardware/analyze first."]

\* a caller enters detectHardware(): the eight inventory reads are issued
DetectStart(r, by) ==
  /\ UNCHANGED <<wsVars, fnVars>>
  /\ task[r].pc = "idle"
  /\ \A q \in Reqs : q < r => task[q].pc # "idle"
  /\ task' = [task EXCEPT ![r] = [@ EXCEPT !.pc = "inventory", !.by = by]]
  /\ lastCall' = "other"
  /\ infoResp' = NoResponse
  /\ UNCHANGED <<hw, lastAnalysis, analysisTimestamp, response>>

\* Promise.all resolved: the inventory is the machine as it is now
InventoryRead(r) ==
  /\ UNCHANGED <<wsVars, fnVars>>
  /\ task[r].pc = "inventory"
  /\ task' = [task EXCEPT ![r] = [@ EXCEPT !.pc = "memLayout", !.inv = hw]]
  /\ lastCall' = "other"
  /\ infoResp' = NoResponse
  /\ UNCHANGED <<hw, lastAnalysis, analysisTimestamp, response>>

\* si.currentLoad(), si.cpuTemperature() and si.memLayout() resolved
MemLayoutRead(r) ==
  /\ UNCHANGED <<wsVars, fnVars>>
  /\ task[r].pc = "memLayout"
  /\ task' = [task EXCEPT ![r] = [@ EXCEPT !.pc = "fsSize", !.memLayout = hw]]
  /\ lastCall' = "other"
  /\ infoResp' = NoResponse
  /\ UNCHANGED <<hw, lastAnalysis, analysisTimestamp, response>>

\* one of the awaited reads rejected with `cause`: the catch block rethrows
\* and the caller answers with the message
DetectFailClearsCache(r, cause) ==
  /\ UNCHANGED <<wsVars, fnVars>>
  /\ task[r].pc \in {"inventory", "memLayout"}
  /\ task' = [task EXCEPT ![r] = [@ EXCEPT !.pc = "failed", !.thrown = cause]]
  /\ response' = [response EXCEPT ![r] = replyFailure(task[r].by, detectionFailed(cause))]
  /\ lastAnalysis' = Null
  /\ lastCall' = "detect_failed"
  /\ infoResp' = NoResponse
  /\ UNCHANGED <<hw, analysisTimestamp>>

DetectFail(r, cause) ==
  /\ UNCHANGED <<wsVars, fnVars>>
  /\ task[r].pc \in {"inventory", "memLayout"}
  /\ task' = [task EXCEPT ![r] = [@ EXCEPT !.pc = "failed", !.thrown = cause]]
  /\ response' = [response EXCEPT ![r] = replyFailure(task[r].by, detectionFailed(cause))]
  /\ lastCall' = "detect_failed"
  /\ infoResp' = NoResponse
  /\ UNCHANGED <<hw, lastAnalysis, analysisTimestamp>>

\* getAvailableStorage() resolved (with 0 when si.fsSize() failed): the
\* analysis object is built, stored and returned
DetectDoneNoStore(r, fsFailed) ==
  /\ UNCHANGED <<wsVars, fnVars>>
  /\ task[r].pc = "fsSize"
  /\ LET analysis == BuildAnalysis(Hardware[task[r].inv],
                                   Hardware[task[r].memLayout].memLayout,
                                   getAvailableStorage(Hardware[hw].fsSize, fsFailed),
                                   now)
     IN  response' = [response EXCEPT ![r] = replySuccess(task[r].by, analysis)]
  /\ task' = [task EXCEPT ![r] = [@ EXCEPT !.pc = "ok"]]
  /\ lastCall' = "detect_done"
  /\ infoResp' = NoResponse
  /\ UNCHANGED <<hw, lastAnalysis, analysisTimestamp>>

DetectDoneTorn(r, fsFailed) ==
  /\ UNCHANGED <<wsVars, fnVars>>
  /\ task[r].pc = "fsSize"
  /\ LET analysis == BuildAnalysis(Hardware[task[r].inv],
                                   Hardware[task[r].memLayout].memLayout,
                                   getAvailableStorage(Hardware[hw].fsSize, fsFailed),
                                   now)
     IN  /\ lastAnalysis' = IF lastAnalysis = Null THEN analysis
                            ELSE [analysis EXCEPT !.performanceScores =
                                                    lastAnalysis.performanceScores]
         /\ response' = [response EXCEPT ![r] = replySuccess(task[r].by, analysis)]
  /\ analysisTimestamp' = now
  /\ task' = [task EXCEPT ![r] = [@ EXCEPT !.pc = "ok"]]
  /\ lastCall' = "detect_done"
  /\ infoResp' = NoResponse
  /\ UNCHANGED hw

DetectDone(r, fsFailed) ==
  /\ UNCHANGED <<wsVars, fnVars>>
  /\ task[r].pc = "fsSize"
  /\ LET analysis == BuildAnalysis(Hardware[task[r].inv],
                                   Hardware[task[r].memLayout].memLayout,
                                   getAvailableStorage(Hardware[hw].fsSize, fsFailed),
                                   now)
     IN  /\ lastAnalysis' = analysis
         /\ response' = [response EXCEPT ![r] = replySuccess(task[r].by, analysis)]
  /\ analysisTimestamp' = now
  /\ task' = [task EXCEPT ![r] = [@ EXCEPT !.pc = "ok"]]
  /\ lastCall' = "detect_done"
  /\ infoResp' = NoResponse
  /\ UNCHANGED hw

\* GET /api/hardware/info: answers from the cache in the same turn
InfoReqWaits ==
  /\ UNCHANGED <<wsVars, fnVars>>
  /\ running = {}
  /\ infoResp' = getCachedAnalysis
  /\ lastCall' = "cached_read"
  /\ UNCHANGED <<hw, task, lastAnalysis, analysisTimestamp, response>>

InfoReq ==
  /\ UNCHANGED <<wsVars, fnVars>>
  /\ infoResp' = getCachedAnalysis
  /\ lastCall' = "cached_read"
  /\ UNCHANGED <<hw, task, lastAnalysis, analysisTimestamp, response>>

\* the machine changes between two reads (a card is plugged or unplugged)
HwChange(h) ==
  /\ UNCHANGED <<wsVars, fnVars>>
  /\ h # hw
  /\ hw' = h
  /\ lastCall' = "other"
  /\ infoResp' = NoResponse
  /\ UNCHANGED <<task, lastAnalysis, analysisTimestamp, response>>

\* ------------------------------------- the detector's synchronous methods
\* no call made
NoCall == [fn |-> "none"]

\* the call has not returned yet
NoReturn == [pending |-> TRUE]

\* the scores are kept within 0..MaxScore by Math.min
MaxScore == 100

\* the facts calculatePerformanceScores is called with
MaxVramGB == 12
FactsCores   == {1, 4, 8}
FactsGHz     == {15, 30}
FactsCacheMB == {1, 2, 16}
FactsTotalGB == {4, 32}
FactsMHz     == {0, 2666, 3200}
FactsGpu ==
  {[type |-> t, vramGB |-> v] :
     t \in {"dedicated", "apple_unified", "integrated"}, v \in 0..MaxVramGB}
    \cup {EmptyGpu}
FactsStorage == {[type |-> T_SSD], [type |-> T_HDD], EmptyDisk}

\* calculatePerformanceScores(cpu, memory, gpu, storage) is called and returns
Call_calculatePerformanceScores ==
  /\ call.fn = "calculatePerformanceScores"
  /\ ret = NoReturn
  /\ ret' = [value |-> calculatePerformanceScores(call.cpu, call.memory,
                                                  call.gpu, call.storage)]
  /\ UNCHANGED <<wsVars, lastCall, cacheVars, infoResp, call>>

\* the graphics controllers a machine can list
\* integrated, 1 GB reported
G_intel ==
  [vendor |-> <<"I", "n", "t", "e", "l">>,
   model |-> <<"U", "H", "D", " ", "G", "r", "a", "p", "h", "i", "c", "s", " ", "6", "3", "0">>,
   vram |-> 1024, memoryTotal |-> undefined]
\* dedicated, 8 GB by the model table
G_rtx3070 ==
  [vendor |-> <<"N", "V", "I", "D", "I", "A">>,
   model |-> <<"G", "e", "F", "o", "r", "c", "e", " ", "R", "T", "X", " ", "3", "0", "7", "0">>,
   vram |-> 4096, memoryTotal |-> undefined]
\* dedicated, 12 GB by the model table
G_rx6700 ==
  [vendor |-> <<"A", "M", "D">>,
   model |-> <<"R", "a", "d", "e", "o", "n", " ", "R", "X", " ", "6", "7", "0", "0", " ", "X", "T">>,
   vram |-> 12288, memoryTotal |-> undefined]
\* apple_unified, 16 GB by its memoryTotal
G_m1 ==
  [vendor |-> <<"A", "p", "p", "l", "e">>,
   model |-> <<"A", "p", "p", "l", "e", " ", "M", "1">>,
   vram |-> undefined, memoryTotal |-> 16384]
\* integrated, 2 GB reported
G_radeonGraphics ==
  [vendor |-> <<"A", "d", "v", "a", "n", "c", "e", "d", " ", "M", "i", "c", "r", "o", " ", "D", "e", "v", "i", "c", "e", "s">>,
   model |-> <<"R", "a", "d", "e", "o", "n", " ", "G", "r", "a", "p", "h", "i", "c", "s">>,
   vram |-> 2048, memoryTotal |-> undefined]

GpuControllers == {G_intel, G_rtx3070, G_rx6700, G_m1, G_radeonGraphics}

\* every list of at most MaxGPUs controllers, in every order
MaxGPUs == 3
ControllerLists == UNION {[1..n -> GpuControllers] : n \in 0..MaxGPUs}

\* inventories in which systeminformation left fields out
AbsentFields(inv) ==
  {[inv EXCEPT !.cpu.cores = undefined],
   [inv EXCEPT !.cpu.physicalCores = undefined, !.cpu.speed = undefined],
   [inv EXCEPT !.cpu.cache = [l1d |-> undefined, l1i |-> undefined,
                              l2 |-> undefined, l3 |-> undefined]],
   [inv EXCEPT !.cpu.cache.l1d = undefined, !.cpu.cache.l1i = undefined],
   [inv EXCEPT !.mem.total = undefined]}

\* the inventories detectHardware is run on
Inventories ==
  {HW_docked, HW_undocked, HW_bare}
    \cup {[HW_docked EXCEPT !.controllers = l] : l \in ControllerLists}
    \cup {[HW_undocked EXCEPT !.controllers = l] : l \in ControllerLists}
    \cup AbsentFields(HW_docked) \cup AbsentFields(HW_bare)

\* the synchronous part of detectHardware() is run on an inventory: the
\* sorted list gpuInfo and the analysis
Call_detectHardware ==
  /\ call.fn = "detectHardware"
  /\ ret = NoReturn
  /\ ret' = [value |-> BuildAnalysis(call.inv, call.inv.memLayout,
                                     getAvailableStorage(call.inv.fsSize, FALSE), 1),
             gpuInfo |-> sortGPUs(allGPUs(call.inv.controllers))]
  /\ UNCHANGED <<wsVars, lastCall, cacheVars, infoResp, call>>

\* the model and vendor strings the classifiers are called with; <<>> is an
\* absent field
GpuModels ==
  {<<"G", "e", "F", "o", "r", "c", "e", " ", "R", "T", "X", " ", "3", "0", "6", "0">>,
   <<"G", "e", "F", "o", "r", "c", "e", " ", "G", "T", "X", " ", "1", "0", "8", "0">>,
   <<"Q", "u", "a", "d", "r", "o", " ", "M", "1", "2", "0", "0">>,
   <<"R", "a", "d", "e", "o", "n", " ", "R", "X", " ", "6", "7", "0", "0", " ", "X", "T">>,
   <<"R", "a", "d", "e", "o", "n", " ", "G", "r", "a", "p", "h", "i", "c", "s">>,
   <<"A", "r", "c", " ", "A", "7", "7", "0">>,
   <<"U", "H", "D", " ", "G", "r", "a", "p", "h", "i", "c", "s", " ", "6", "3", "0">>,
   <<"I", "r", "i", "s", " ", "X", "e", " ", "G", "r", "a", "p", "h", "i", "c", "s">>,
   <<"A", "p", "p", "l", "e", " ", "M", "1">>,
   <<>>}

GpuVendors ==
  {<<"N", "V", "I", "D", "I", "A">>,
   <<"A", "M", "D">>,
   <<"I", "n", "t", "e", "l">>,
   <<"A", "p", "p", "l", "e">>,
   <<>>}

\* the MB values reported in gpu.vram and gpu.memoryTotal
VramReports     == {undefined, 0, 16, 512, 513, 1024, 8192}
MemTotalReports == {undefined, 512, 2048}

\* getGPUVRAM(gpu) is called and returns
Call_getGPUVRAM ==
  /\ call.fn = "getGPUVRAM"
  /\ ret = NoReturn
  /\ ret' = [value |-> getGPUVRAM(call.gpu)]
  /\ UNCHANGED <<wsVars, lastCall, cacheVars, infoResp, call>>

\* determineGPUType(model, vendor) is called and returns
Call_determineGPUType ==
  /\ call.fn = "determineGPUType"
  /\ ret = NoReturn
  /\ ret' = [value |-> determineGPUType(call.model, call.vendor)]
  /\ UNCHANGED <<wsVars, lastCall, cacheVars, infoResp, call>>

\* the strings extractGPUBrand is called with: gpu.vendor || gpu.model
BrandInputs ==
  {<<"N", "V", "I", "D", "I", "A", " ", "C", "o", "r", "p", "o", "r", "a", "t", "i", "o", "n">>,
   <<"G", "e", "F", "o", "r", "c", "e", " ", "R", "T", "X", " ", "3", "0", "6", "0">>,
   <<"N", "V", "I", "D", "I", "A", " ", "O", "p", "t", "i", "m", "u", "s", " ", "o", "n", " ", "I", "n", "t", "e", "l">>,
   <<"A", "M", "D">>,
   <<"A", "T", "I", " ", "T", "e", "c", "h", "n", "o", "l", "o", "g", "i", "e", "s">>,
   <<"R", "a", "d", "e", "o", "n", " ", "G", "r", "a", "p", "h", "i", "c", "s">>,
   <<"A", "p", "p", "l", "e", " ", "A", "M", "D", " ", "R", "a", "d", "e", "o", "n", " ", "P", "r", "o">>,
   <<"I", "n", "t", "e", "l", " ", "C", "o", "r", "p", "o", "r", "a", "t", "i", "o", "n">>,
   <<"I", "n", "t", "e", "l">>,
   <<"A", "p", "p", "l", "e">>,
   <<"M", "a", "t", "r", "o", "x">>,
   <<"A", "d", "v", "a", "n", "c", "e", "d", " ", "M", "i", "c", "r", "o", " ", "D", "e", "v", "i", "c", "e", "s">>,
   <<>>}

\* extractGPUBrand(vendor) is called and returns
Call_extractGPUBrand ==
  /\ call.fn = "extractGPUBrand"
  /\ ret = NoReturn
  /\ ret' = [value |-> extractGPUBrand(call.vendor)]
  /\ UNCHANGED <<wsVars, lastCall, cacheVars, infoResp, call>>

\* the memory modules si.memLayout() reports: the type as the platform
\* spells it (<<>> when not reported) and the clock speed in MHz
ModuleTypes ==
  {<<>>, <<"d", "d", "r", "4">>, <<"D", "D", "R", "3">>, <<"L", "P", "D", "D", "R", "4">>, <<"l", "p", "d", "d", "r", "5">>}
ModuleSpeeds == {undefined, 0, 667, 799, 800, 2132, 2133, 4799, 4800, 5600}
MemModules == {[type |-> ty, clockSpeed |-> sp] : ty \in ModuleTypes, sp \in ModuleSpeeds}

\* no module, one module, or two modules of which the second is DDR5
MemLayouts ==
  {<<>>} \cup {<<m>> : m \in MemModules}
         \cup {<<m, [type |-> T_DDR5, clockSpeed |-> 4800]>> : m \in MemModules}

\* detectMemoryType(memLayout) is called and returns
Call_detectMemoryType ==
  /\ call.fn = "detectMemoryType"
  /\ ret = NoReturn
  /\ ret' = [value |-> detectMemoryType(call.memLayout)]
  /\ UNCHANGED <<wsVars, lastCall, cacheVars, infoResp, call>>

\* calculateHardwareTier(overallScore) is called and returns
Call_calculateHardwareTier ==
  /\ call.fn = "calculateHardwareTier"
  /\ ret = NoReturn
  /\ ret' = [value |-> calculateHardwareTier(call.overallScore)]
  /\ UNCHANGED <<wsVars, lastCall, cacheVars, infoResp, call>>

vars == <<wsVars, lastCall, cacheVars, infoResp, fnVars>>

\* the state after new ApiServer(): no socket, no timer, an empty cache
Constructed ==
  /\ clients = {}
  /\ readyState = [c \in Clients |-> "NEW"]
  /\ realtimeInterval = NULL
  /\ timers = {}
  /\ tick = [s \in SampleIds |-> "none"]
  /\ recv = [c \in Clients |-> <<>>]
  /\ server = "running"
  /\ pendingAtClose = [c \in Clients |-> {}]
  /\ lastCall = "other"
  /\ hw = 1
  /\ task = [r \in Reqs |-> IdleTask]
  /\ lastAnalysis = Null
  /\ analysisTimestamp = NULL
  /\ response = [r \in Reqs |-> NoResponse]
  /\ infoResp = NoResponse

Init ==
  /\ Constructed
  /\ call = NoCall
  /\ ret = NoReturn

\* the realtime broadcast loop
Next ==
  \/ \E c \in Clients : Connect(c)
  \/ \E c \in Clients : BeginClose(c)
  \/ \E c \in Clients : OnClose(c)
  \/ \E c \in Clients : StartRealtimeMsg(c)
  \/ \E c \in Clients : StopRealtimeMsg(c)
  \/ \E t \in timers : Tick(t)
  \/ \E s \in SampleIds : PollOk(s)
  \/ \E s \in SampleIds : PollFail(s)
  \/ Stop

Spec == Init /\ [][Next]_vars

\* the hardware detector and its snapshot cache
CacheNext ==
  \/ \E r \in Reqs : \E by \in {"http", "ws"} : DetectStart(r, by)
  \/ \E r \in Reqs : InventoryRead(r)
  \/ \E r \in Reqs : MemLayoutRead(r)
  \/ \E r \in Reqs : \E cause \in Causes : DetectFail(r, cause)
  \/ \E r \in Reqs : \E fsFailed \in BOOLEAN : DetectDone(r, fsFailed)
  \/ InfoReq
  \/ \E h \in HwIds : HwChange(h)

CacheSpec == Init /\ [][CacheNext]_vars

\* the synchronous methods of the detector, each called once with arguments
\* drawn from the sets above
PureInit ==
  /\ Constructed
  /\ ret = NoReturn
  /\ \/ \E s \in 0..MaxScore : call = [fn |-> "calculateHardwareTier", overallScore |-> s]
     \/ \E c \in FactsCores, f \in FactsGHz, k \in FactsCacheMB,
           m \in FactsTotalGB, sp \in FactsMHz, g \in FactsGpu, d \in FactsStorage :
          call = [fn |-> "calculatePerformanceScores",
                  cpu |-> [logicalCores |-> c, baseFrequencyGHz |-> f, cacheSizeMB |-> k],
                  memory |-> [totalMemoryGB |-> m, memorySpeedMHz |-> sp],
                  gpu |-> g,
                  storage |-> d]
     \/ \E inv \in Inventories : call = [fn |-> "detectHardware", inv |-> inv]
     \/ \E m \in GpuModels, v \in GpuVendors, r \in VramReports, t \in MemTotalReports :
          call = [fn |-> "getGPUVRAM",
                  gpu |-> [model |-> m, vendor |-> v, vram |-> r, memoryTotal |-> t]]
     \/ \E m \in GpuModels, v \in GpuVendors :
          call = [fn |-> "determineGPUType", model |-> m, vendor |-> v]
     \/ \E v \in BrandInputs : call = [fn |-> "extractGPUBrand", vendor |-> v]
     \/ \E l \in MemLayouts : call = [fn |-> "detectMemoryType", memLayout |-> l]

PureNext ==
  \/ Call_calculateHardwareTier
  \/ Call_calculatePerformanceScores
  \/ Call_detectHardware
  \/ Call_getGPUVRAM
  \/ Call_determineGPUType
  \/ Call_extractGPUBrand
  \/ Call_detectMemoryType

PureSpec == PureInit /\ [][PureNext]_vars

\* ========================================================================
\* Properties of the realtime broadcast loop
\* ========================================================================
Range(q) == {q[i] : i \in 1..Len(q)}

\* C1: at most one polling timer is registered at any time, and it is the one
\* this.realtimeInterval holds; a start_realtime that arrives while the loop
\* is ACTIVE and a stop (stop_realtime or server stop) that arrives while it
\* is IDLE change neither the timer handle, nor the registered timers, nor
\* the subscriber set.
C1_SingleTimer ==
  /\ [](/\ Cardinality(timers) <= 1
        /\ timers = IF realtimeInterval = NULL
                      THEN {}
                      ELSE {[id |-> realtimeInterval, ms |-> PERIOD_MS]})
  /\ [][lastCall' \in {"start_noop", "stop_noop"}
          => UNCHANGED <<realtimeInterval, timers, clients>>]_vars

\* a second start_realtime has just been handled while the loop was ACTIVE,
\* with two subscribers attached and a tick already fired
C1_Witness ==
  /\ lastCall = "start_noop"
  /\ Cardinality(clients) >= 2
  /\ Cardinality(timers) = 1
  /\ tickCount >= 1

\* C2: in every state in which the subscriber set is empty, no polling timer
\* is registered and the handle is null (the close of the last subscriber
\* clears the timer, so the interval callback cannot fire any more).
C2_NoOrphanTimer ==
  clients = {} => (timers = {} /\ realtimeInterval = NULL)

\* the close handler of the last subscriber has just cleared the timer of a
\* loop that had been ticking
C2_Witness ==
  /\ lastCall = "last_detach_stop"
  /\ clients = {}
  /\ timers = {}
  /\ tickCount >= 1

C4_StaysActiveWhileSubscribed ==
  [][(realtimeInterval # NULL /\ realtimeInterval' = NULL /\ server' = "running")
       => Cardinality(clients') <= 1]_vars

\* C5: no socket is sent the same sample twice, only broadcast samples are
\* sent, and the step that broadcasts sample s appends s exactly once to
\* every attached socket that is OPEN and sends nothing to any other socket.
C5_FanOut ==
  /\ [](\A c \in Clients :
          /\ \A i, j \in 1..Len(recv[c]) : recv[c][i] = recv[c][j] => i = j
          /\ \A i \in 1..Len(recv[c]) : tick[recv[c][i]] = "sent")
  /\ [][\A s \in SampleIds :
          (tick[s] = "pending" /\ tick'[s] = "sent")
            => \A c \in Clients :
                 recv'[c] = IF c \in clients /\ readyState[c] = "OPEN"
                              THEN Append(recv[c], s)
                              ELSE recv[c]]_vars

\* one sample has reached every one of the attached sockets, all of them OPEN
C5_Witness ==
  /\ Cardinality(clients) >= 2
  /\ \A c \in clients : readyState[c] = "OPEN"
  /\ \E s \in SampleIds : tick[s] = "sent" /\ \A c \in clients : s \in Range(recv[c])

\* C6: the step in which a poll settles without a sample sends nothing to
\* any socket, fires no other tick (no retry) and leaves the timer handle and
\* the registered timers unchanged.
C6_FailedPollDropped ==
  [][\A s \in SampleIds :
       (tick[s] = "pending" /\ tick'[s] = "dropped")
         => /\ recv' = recv
            /\ UNCHANGED <<realtimeInterval, timers>>
            /\ \A s2 \in SampleIds \ {s} : tick'[s2] = tick[s2]]_vars

\* a poll has just been dropped while the loop is ACTIVE with a subscriber
\* attached, and the timer can fire again
C6_Witness ==
  /\ lastCall = "poll_dropped"
  /\ realtimeInterval # NULL
  /\ timers # {}
  /\ clients # {}
  /\ tickCount < MaxTicks

\* C7: a socket whose close has begun is sent no further sample; the step
\* in which a close begins changes nothing of the loop, and the close handler
\* of a subscriber that leaves others attached leaves the timer handle, the
\* registered timers and the polls in flight unchanged.
C7_DetachIsClean ==
  /\ [][\A c \in Clients :
          readyState[c] \in {"CLOSING", "CLOSED"} => recv'[c] = recv[c]]_vars
  /\ [][(\E c \in Clients : readyState[c] = "OPEN" /\ readyState'[c] = "CLOSING")
          => UNCHANGED <<clients, realtimeInterval, timers, tick, recv>>]_vars
  /\ [][(clients' # clients /\ clients' \subseteq clients /\ clients' # {})
          => UNCHANGED <<realtimeInterval, timers, tick, recv>>]_vars

\* a socket's close began while a poll was in flight; the poll then settled
\* and its sample went to another socket and not to the closing one, and the
\* loop is still ACTIVE
C7_Witness ==
  \E c, d \in Clients : \E s \in SampleIds :
    /\ readyState[c] = "CLOSING"
    /\ s \in pendingAtClose[c]
    /\ tick[s] = "sent"
    /\ s \in Range(recv[d])
    /\ s \notin Range(recv[c])
    /\ realtimeInterval # NULL


\* ========================================================================
\* Properties of the hardware detector's snapshot cache
\* ========================================================================

\* the analysis carried by an answer, whichever route it was sent on
DataOf(resp) == IF "data" \in DOMAIN resp THEN resp.data ELSE Null

\* the failure text carried by an answer, whichever route it was sent on
ErrorOf(resp) ==
  IF "error" \in DOMAIN resp THEN resp.error
  ELSE IF "message" \in DOMAIN resp THEN resp.message
  ELSE <<>>

IsFailure(resp) ==
  \/ "success" \in DOMAIN resp /\ resp.success = FALSE /\ resp.status = 500
  \/ "type" \in DOMAIN resp /\ resp.type = "error"

succeeded == {r \in Reqs : task[r].pc = "ok"}

\* the call of detectHardware() that completed last
LatestOk ==
  CHOOSE r \in succeeded :
    \A q \in succeeded :
      DataOf(response[q]).analysisTimestamp <= DataOf(response[r]).analysisTimestamp

\* C8: when a read of the inventory fails during a full analysis, the caller
\* answers with an explicit failure whose text carries the cause that was
\* thrown, no analysis is sent, and the cache (lastAnalysis and its
\* timestamp) is exactly what it was before: the last analysis that
\* succeeded, or null when none has.
C8_FailureLeavesCache ==
  [][\A r \in Reqs :
       (task[r].pc # "failed" /\ task'[r].pc = "failed") =>
          /\ lastAnalysis' = lastAnalysis
          /\ analysisTimestamp' = analysisTimestamp
          /\ IsFailure(response'[r])
          /\ DataOf(response'[r]) = Null
          /\ task'[r].thrown \in Causes
          /\ task'[r].thrown \in Range(ErrorOf(response'[r]))]_vars

\* a read fails after an earlier analysis has filled the cache
C8_Witness ==
  /\ lastCall = "detect_failed"
  /\ lastAnalysis # Null
  /\ \E r \in Reqs : task[r].pc = "failed" /\ IsFailure(response[r])

\* C9: in the state in which a full analysis has just returned, a cached
\* read answers 200 with the same fingerprint, scores and tier as the analysis
\* that was returned, also while other calls of detectHardware() are suspended.
C9_CacheCoherence ==
  [][\A r \in Reqs :
       (task[r].pc # "ok" /\ task'[r].pc = "ok") =>
          /\ getCachedAnalysis'.status = 200
          /\ getCachedAnalysis'.data.hardwareFingerprint
               = DataOf(response'[r]).hardwareFingerprint
          /\ getCachedAnalysis'.data.performanceScores
               = DataOf(response'[r]).performanceScores
          /\ getCachedAnalysis'.data.hardwareTier
               = DataOf(response'[r]).hardwareTier]_vars

\* an analysis has just returned while another call, which read a different
\* machine, is still suspended
C9_Witness ==
  /\ lastCall = "detect_done"
  /\ \E r \in running : task[r].pc = "fsSize" /\ task[r].inv # 0
       /\ BuildAnalysis(Hardware[task[r].inv], Hardware[task[r].memLayout].memLayout,
                        0, 0).hardwareFingerprint
            # lastAnalysis.hardwareFingerprint

\* C10: the cache is null exactly until the first analysis succeeds and is
\* never null again; a cached read can run in every state, whatever the calls
\* of detectHardware() in progress; it starts no read of the machine and
\* changes nothing, and it answers 404 without data before the first success
\* and 200 with the analysis that completed last after it.
C10_CachedRead ==
  /\ [](lastAnalysis = Null <=> succeeded = {})
  /\ [](ENABLED InfoReq)
  /\ [][lastAnalysis # Null => lastAnalysis' # Null]_vars
  /\ [][lastCall' = "cached_read" =>
          /\ UNCHANGED <<hw, task, lastAnalysis, analysisTimestamp, response>>
          /\ IF succeeded = {}
               THEN /\ infoResp'.status = 404
                    /\ infoResp'.success = FALSE
                    /\ DataOf(infoResp') = Null
               ELSE /\ infoResp'.status = 200
                    /\ infoResp'.success = TRUE
                    /\ infoResp'.data = DataOf(response[LatestOk])]_vars

\* a cached read is answered from the cache while an analysis is in progress,
\* after an earlier one has failed
C10_Witness ==
  /\ lastCall = "cached_read"
  /\ infoResp.status = 200
  /\ running # {}


\* the analysis that the reads recorded for call r give, with the free space
\* and the timestamp of `snapshot`
RunOf(r, snapshot) ==
  BuildAnalysis(Hardware[task[r].inv], Hardware[task[r].memLayout].memLayout,
                snapshot.hardwareSpecs.storage.availableSpaceGB,
                snapshot.analysisTimestamp)

\* C11: in every state the cache is null or is, field for field, the analysis
\* that one completed call of detectHardware() built from its own reads and
\* returned, with the detector's timestamp set in the same step; and a cached
\* read answered while calls are in progress carries such a whole analysis.
C11_NoTornSnapshot ==
  /\ lastAnalysis # Null =>
       /\ \E r \in succeeded :
            /\ lastAnalysis = DataOf(response[r])
            /\ lastAnalysis = RunOf(r, lastAnalysis)
       /\ analysisTimestamp = lastAnalysis.analysisTimestamp
  /\ (lastCall = "cached_read" /\ infoResp.status = 200) =>
       \E r \in succeeded : infoResp.data = DataOf(response[r])
                              /\ infoResp.data = RunOf(r, infoResp.data)

\* a cached read is answered with the first snapshot while a second call,
\* which read a different machine, is one step from replacing it
C11_Witness ==
  /\ lastCall = "cached_read"
  /\ infoResp.status = 200
  /\ \E r \in running :
       /\ task[r].pc = "fsSize"
       /\ Hardware[task[r].inv].controllers
            # Hardware[task[CHOOSE q \in succeeded : TRUE].inv].controllers


\* ========================================================================
\* Properties of the scorer and of the classifiers
\* ========================================================================

\* C12: for every integer overallScore in 0..100, calculateHardwareTier
\* returns HIGH from 80 up, MEDIUM for 60..79, LOW for 40..59 and VERY_LOW
\* below 40, and nothing but the score decides the tier.
C12_TierBreakpoints ==
  (call.fn = "calculateHardwareTier" /\ ret # NoReturn) =>
     LET s == call.overallScore IN
     /\ s \in 0..100
     /\ ret.value = (CASE s >= 80 -> "HIGH"
                       [] s >= 60 /\ s <= 79 -> "MEDIUM"
                       [] s >= 40 /\ s <= 59 -> "LOW"
                       [] s < 40 -> "VERY_LOW")

\* the call with the boundary score 80 has returned HIGH
C12_Witness ==
  /\ call.fn = "calculateHardwareTier"
  /\ call.overallScore = 80
  /\ ret # NoReturn
  /\ ret.value = "HIGH"


scored == call.fn = "calculatePerformanceScores" /\ ret # NoReturn

\* C13: the overallScore that calculatePerformanceScores returns is
\* round-half-up(0.35*cpuScore + 0.25*memoryScore + 0.30*gpuScore +
\* 0.10*storageScore) of the four sub-scores returned with it.
C13_OverallFromReported ==
  scored =>
    ret.value.overallScore =
      RoundDiv((35 * ret.value.cpuScore) + (25 * ret.value.memoryScore)
               + (30 * ret.value.gpuScore) + (10 * ret.value.storageScore), 100)

\* the formulas of the four sub-scores, in hundredths
FormulaCpu == Min(10000, (call.cpu.logicalCores * 500) + (call.cpu.baseFrequencyGHz * 100)
                          + (call.cpu.cacheSizeMB * 50))
FormulaMemory == Min(10000, (call.memory.totalMemoryGB * 400) + call.memory.memorySpeedMHz)
FormulaGpu ==
  IF call.gpu.type = "dedicated" THEN Min(10000, 6000 + (call.gpu.vramGB * 400))
  ELSE IF call.gpu.type = "apple_unified" THEN Min(10000, 5000 + (call.gpu.vramGB * 300))
  ELSE 3000
FormulaStorage == IF call.storage.type = T_SSD THEN 8500 ELSE 6000

\* C14: every sub-score that calculatePerformanceScores returns is exactly
\* the value of its formula: min(100, cores*5 + GHz*10 + cacheMB*0.5),
\* min(100, GB*4 + MHz/100), min(100, 60 + vram*4) or min(100, 50 + vram*3)
\* or 30, and 85 or 60.
C14_SubScoresExact ==
  scored =>
    /\ ret.value.cpuScore * 100 = FormulaCpu
    /\ ret.value.memoryScore * 100 = FormulaMemory
    /\ ret.value.gpuScore * 100 = FormulaGpu
    /\ ret.value.storageScore * 100 = FormulaStorage


\* gpuScore of a dedicated GPU with v GB, everything else as in the call
GpuScoreAt(v) ==
  calculatePerformanceScores(call.cpu, call.memory,
                             [type |-> "dedicated", vramGB |-> v], call.storage).gpuScore

\* C16: for a dedicated GPU the returned gpuScore never decreases with
\* vramGB: for every v1 below the vramGB of the call the score at v1 is at
\* most the returned one, strictly less while it is below 100, and a score
\* that has reached 100 stays 100; the score never exceeds 100.
C16_GpuScoreMonotone ==
  (scored /\ call.gpu.type = "dedicated") =>
     /\ ret.value.gpuScore = GpuScoreAt(call.gpu.vramGB)
     /\ ret.value.gpuScore <= 100
     /\ \A v1 \in 0..call.gpu.vramGB :
          /\ GpuScoreAt(v1) <= ret.value.gpuScore
          /\ (v1 < call.gpu.vramGB /\ GpuScoreAt(v1) < 100) =>
                GpuScoreAt(v1) < ret.value.gpuScore
          /\ GpuScoreAt(v1) = 100 => ret.value.gpuScore = 100

\* a dedicated GPU beyond the clamp (60 + 4 * 12 > 100) has been scored 100
C16_Witness ==
  /\ scored
  /\ call.gpu.type = "dedicated"
  /\ call.gpu.vramGB > 10
  /\ ret.value.gpuScore = 100


analysed == call.fn = "detectHardware" /\ ret # NoReturn

\* C15: in every analysis that detectHardware builds, each of cpuScore,
\* memoryScore, gpuScore, storageScore and overallScore is a number within
\* 0..100, also when the inventory lacks fields, lists no GPU or no drive.
C15_ScoresInRange ==
  analysed =>
    \A k \in {"cpuScore", "memoryScore", "gpuScore", "storageScore", "overallScore"} :
       /\ IsNum(ret.value.performanceScores[k])
       /\ ret.value.performanceScores[k] <= 100


Count(q, x) == Cardinality({i \in 1..Len(q) : q[i] = x})

Reverse(q) == [i \in 1..Len(q) |-> q[Len(q) + 1 - i]]

\* what the sort orders by
SortKeys(q) == [i \in 1..Len(q) |-> <<q[i].type, q[i].vramGB>>]

\* C20: the sorted list gpuInfo holds the GPUs of the inventory, every
\* dedicated one before every other one and GPUs of the same type by
\* descending vramGB, and the same types and sizes in the same places when the
\* inventory lists the controllers in the opposite order; its first element
\* is the gpu the analysis reports, the one gpuScore is computed from and the
\* one whose model enters the fingerprint.
C20_SortedPrimaryGpu ==
  analysed =>
    LET g   == ret.gpuInfo
        all == allGPUs(call.inv.controllers)
    IN  /\ Len(g) = Len(all)
        /\ \A i \in 1..Len(all) : Count(g, all[i]) = Count(all, all[i])
        /\ \A i \in 1..Len(g) : \A j \in (i + 1)..Len(g) :
             /\ g[j].type = "dedicated" => g[i].type = "dedicated"
             /\ g[i].type = g[j].type => g[i].vramGB >= g[j].vramGB
        /\ SortKeys(g) = SortKeys(sortGPUs(allGPUs(Reverse(call.inv.controllers))))
        /\ Len(g) > 0 =>
             /\ ret.value.hardwareSpecs.gpu = g[1]
             /\ ret.value.performanceScores.gpuScore =
                  (IF g[1].type = "dedicated" THEN Min(100, 60 + (4 * g[1].vramGB))
                   ELSE IF g[1].type = "apple_unified" THEN Min(100, 50 + (3 * g[1].vramGB))
                   ELSE 30)
             /\ ret.value.hardwareFingerprint =
                  hardwareFingerprint(ret.value.hardwareSpecs.cpu,
                                      ret.value.hardwareSpecs.memory,
                                      <<g[1]>>, ret.value.hardwareSpecs.system)

\* the dedicated 8 GB card, listed last behind an integrated GPU and a 16 GB
\* unified one, has come first, and the 16 GB one second
C20_Witness ==
  /\ analysed
  /\ call.inv.controllers = <<G_intel, G_m1, G_rtx3070>>
  /\ ret.gpuInfo[1].model = G_rtx3070.model
  /\ ret.gpuInfo[2].model = G_m1.model
  /\ ret.value.hardwareSpecs.gpu.vramGB = 8


resolved == call.fn = "getGPUVRAM" /\ ret # NoReturn

\* the tokens of the known-model table that the model of the call contains
TableHits == {i \in 1..Len(VramTable) : includes(toLowerCase(call.gpu.model), VramTable[i][1])}

\* the value of the first such token, in the order of the table
TableValue == VramTable[CHOOSE i \in TableHits : \A j \in TableHits : i <= j][2]

\* C17: getGPUVRAM resolves in this order: a table match gives the table
\* value; otherwise an Intel vendor gives 0; otherwise gpu.vram if above
\* 512 MB, rounded to GB; otherwise gpu.memoryTotal under the same floor;
\* otherwise 0.
C17_ResolutionOrder ==
  resolved =>
    ret.value =
      (IF TableHits # {} THEN TableValue
       ELSE IF includes(toLowerCase(call.gpu.vendor), T_intel) THEN 0
       ELSE IF call.gpu.vram > 512 THEN RoundDiv(call.gpu.vram, 1024)
       ELSE IF call.gpu.memoryTotal > 512 THEN RoundDiv(call.gpu.memoryTotal, 1024)
       ELSE 0)

\* C18: when the model contains a token of the known-model table,
\* getGPUVRAM returns the table value of the first such token, for every
\* vendor and whatever gpu.vram and gpu.memoryTotal report; a model
\* containing "3060" resolves to 6.
C18_TableOutranksRaw ==
  (resolved /\ TableHits # {}) =>
     /\ ret.value = TableValue
     /\ \A r \in VramReports, t \in MemTotalReports, v \in GpuVendors :
          getGPUVRAM([call.gpu EXCEPT !.vram = r, !.memoryTotal = t, !.vendor = v])
            = ret.value
     /\ includes(toLowerCase(call.gpu.model), <<"3", "0", "6", "0">>) => ret.value = 6

\* vendor NVIDIA, a model containing "3060" and a raw VRAM of 16 have
\* resolved to 6
C18_Witness ==
  /\ resolved
  /\ call.gpu.vendor = <<"N", "V", "I", "D", "I", "A">>
  /\ includes(call.gpu.model, <<"3", "0", "6", "0">>)
  /\ call.gpu.vram = 16
  /\ ret.value = 6

classified == call.fn = "determineGPUType" /\ ret # NoReturn

ModelHas(token)  == includes(toLowerCase(call.model), token)
VendorHas(token) == includes(toLowerCase(call.vendor), token)

RuleNvidia ==
  \/ ModelHas(T_geforce) \/ ModelHas(T_rtx) \/ ModelHas(T_gtx) \/ ModelHas(T_quadro)
  \/ VendorHas(T_nvidia) /\ ~ModelHas(T_integrated)
RuleAmd ==
  \/ ModelHas(T_radeon) /\ ~ModelHas(T_graphics)
  \/ ModelHas(T_rx) \/ ModelHas(T_vega)
  \/ VendorHas(T_amd) /\ ~ModelHas(T_integrated)
RuleArc == ModelHas(T_arc)
AppleTokens == {T_apple, T_m1, T_m2, T_m3}

\* C19 as stated: the Apple rule, on the model or the vendor, decides before
\* the NVIDIA, AMD and Arc rules, and integrated is what remains.
C19_AppleFirst ==
  classified =>
    ret.value =
      (IF \E t \in AppleTokens : ModelHas(t) \/ VendorHas(t) THEN "apple_unified"
       ELSE IF RuleNvidia \/ RuleAmd \/ RuleArc THEN "dedicated"
       ELSE "integrated")

\* C19, amended: an absent model is integrated; otherwise the NVIDIA, AMD and
\* Arc rules decide first and give dedicated; the Apple rule comes after them
\* and looks at the model only; integrated is what remains.
C19_DedicatedFirst ==
  classified =>
    ret.value =
      (IF call.model = <<>> THEN "integrated"
       ELSE IF RuleNvidia \/ RuleAmd \/ RuleArc THEN "dedicated"
       ELSE IF \E t \in AppleTokens : ModelHas(t) THEN "apple_unified"
       ELSE "integrated")

\* a model that matches the quadro rule and contains the token m1 has been
\* classified dedicated
C19_Witness ==
  /\ classified
  /\ ModelHas(T_quadro) /\ ModelHas(T_m1)
  /\ ret.value = "dedicated"

\* ========================================================================
\* Properties of the analysis object
\* ========================================================================
\* the analysis detectHardware builds from the inventory `inv` at time `t`
AnalysisOf(inv, t) ==
  BuildAnalysis(inv, inv.memLayout, getAvailableStorage(inv.fsSize, FALSE), t)

\* the four values the fingerprint is said to depend on
FingerprintFacts(inv) ==
  LET gpus == sortGPUs(allGPUs(inv.controllers)) IN
  <<cpuInfo(inv.cpu).logicalCores,
    memoryInfo(inv.mem, inv.memLayout).totalMemoryGB,
    IF Len(gpus) > 0 THEN gpus[1].model ELSE T_integrated,
    inv.platform>>

\* for every inventory: its four values and the fingerprints of its
\* analyses made at two different times
FingerprintRuns ==
  {[inv |-> inv, facts |-> FingerprintFacts(inv),
    prints |-> {AnalysisOf(inv, t).hardwareFingerprint : t \in 1..2}] :
     inv \in Inventories}

\* C21: the fingerprint is a function of logicalCores, totalMemoryGB, the
\* primary GPU's model ("integrated" when there is no GPU) and the OS
\* platform only: an analysis of any other inventory that agrees on these
\* four values, made at any time, carries the same fingerprint; and the
\* fingerprint is at most 16 characters long.
C21_FingerprintDeterminism ==
  analysed =>
    /\ Len(ret.value.hardwareFingerprint) <= FINGERPRINT_LEN
    /\ LET facts == FingerprintFacts(call.inv) IN
       \A other \in FingerprintRuns :
         other.facts = facts => other.prints = {ret.value.hardwareFingerprint}

\* an analysis of a machine with two GPUs whose fingerprint is cut to 16
\* characters, and another machine that agrees on the four values but has a
\* further GPU, other memory modules and another drive
C21_Witness ==
  /\ analysed
  /\ Len(call.inv.controllers) = 2
  /\ Len(ret.value.hardwareFingerprint) = FINGERPRINT_LEN
  /\ \E other \in FingerprintRuns :
       /\ other.facts = FingerprintFacts(call.inv)
       /\ Len(other.inv.controllers) = 3
       /\ other.inv.memLayout # call.inv.memLayout
       /\ other.inv.diskLayout # call.inv.diskLayout

\* C22: the fingerprint, the scores and the tier of an analysis are what the
\* fingerprint, scoring and tier functions give when applied to the facts
\* the analysis reports (hardwareSpecs.cpu, .memory, .gpu, .storage and
\* .system), also when the inventory lists no GPU or no drive.
C22_Recomputable ==
  analysed =>
    LET specs == ret.value.hardwareSpecs IN
    /\ ret.value.hardwareFingerprint =
         hardwareFingerprint(specs.cpu, specs.memory, <<specs.gpu>>, specs.system)
    /\ ret.value.performanceScores =
         calculatePerformanceScores(specs.cpu, specs.memory, specs.gpu,
                                    [type |-> specs.storage.storageType])
    /\ ret.value.hardwareTier =
         calculateHardwareTier(ret.value.performanceScores.overallScore)

\* C23: every analysis has complete facts: whatever inventory fields are
\* absent, each numeric fact is a number and each string fact is a string.
C23_CompleteFacts ==
  analysed =>
    LET specs == ret.value.hardwareSpecs IN
    /\ \A n \in {specs.cpu.physicalCores, specs.cpu.logicalCores,
                  specs.cpu.baseFrequencyGHz, specs.cpu.cacheSizeMB,
                  specs.memory.totalMemoryGB, specs.memory.memorySpeedMHz,
                  specs.memory.modules, specs.gpu.vramGB,
                  specs.storage.totalSpaceGB, specs.storage.availableSpaceGB} :
         IsNum(n)
    /\ \A str \in {specs.cpu.brand, specs.memory.memoryType, specs.gpu.brand,
                    specs.gpu.model, specs.storage.storageType, specs.system.os} :
         str # <<>>

\* a cache component, absent counting as 0
CacheComponent(x) == IF IsNum(x) THEN x ELSE 0

\* C24: cacheSizeMB is the sum of the l1d, l1i, l2 and l3 values, an absent
\* one counting as 0, converted to MB; a CPU that reports only some of the
\* four gets the sum of those it reports, and one that reports none gets 0.
C24_CacheSum ==
  analysed =>
    LET cache == call.inv.cpu.cache IN
    ret.value.hardwareSpecs.cpu.cacheSizeMB =
      RoundDiv(CacheComponent(cache.l1d) + CacheComponent(cache.l1i)
                 + CacheComponent(cache.l2) + CacheComponent(cache.l3),
               BytesPerMiB)

\* ========================================================================
\* Properties of the brand and memory classifiers
\* ========================================================================
branded == call.fn = "extractGPUBrand" /\ ret # NoReturn

\* the keyword groups in the order of the claim: <<keywords, brand>>
BrandGroups ==
  << <<{T_nvidia, T_geforce}, <<"N", "V", "I", "D", "I", "A">> >>,
     <<{T_amd, T_ati, T_radeon}, <<"A", "M", "D">> >>,
     <<{T_intel}, <<"I", "n", "t", "e", "l">> >>,
     <<{T_apple}, <<"A", "p", "p", "l", "e">> >> >>

\* the groups that the lower-cased input matches
BrandMatches ==
  LET v == toLowerCase(call.vendor) IN
  {i \in 1..Len(BrandGroups) :
     /\ \E token \in BrandGroups[i][1] : includes(v, token)
     /\ i = 3 => ~includes(v, T_nvidia)}

FirstBrandMatch == CHOOSE i \in BrandMatches : \A j \in BrandMatches : i <= j

\* C25 as stated: the first matching group of NVIDIA, AMD, Intel, Apple gives
\* the brand, and every string that matches no group is returned unmodified.
C25_NoMatchUnmodified ==
  branded =>
    ret.value = IF BrandMatches # {} THEN BrandGroups[FirstBrandMatch][2]
                ELSE call.vendor

\* C25, amended: an absent or empty string gives "Unknown"; otherwise the
\* first matching group of NVIDIA, AMD, Intel, Apple gives the brand, and a
\* non-empty string that matches no group is returned unmodified.
C25_BrandOrder ==
  branded =>
    ret.value = IF call.vendor = <<>> THEN T_Unknown
                ELSE IF BrandMatches # {} THEN BrandGroups[FirstBrandMatch][2]
                ELSE call.vendor

\* "Intel Corporation" matches the AMD group (corporATIon) and the Intel
\* group, and the earlier group decides
C25_Witness ==
  /\ branded
  /\ BrandMatches = {2, 3}
  /\ ret.value = <<"A", "M", "D">>

typed == call.fn = "detectMemoryType" /\ ret # NoReturn

\* the type inferred from a clock speed by the claimed thresholds
TypeOfSpeed(mhz) ==
  IF mhz >= 4800 THEN T_DDR5
  ELSE IF mhz >= 2133 THEN T_DDR4
  ELSE IF mhz >= 800 THEN T_DDR3
  ELSE T_DDR4

\* C26 as stated: a reported type is returned upper-cased; without one the
\* type follows the clock speed (>= 4800 DDR5, >= 2133 DDR4, >= 800 DDR3);
\* with neither it is DDR4; and the result is always one of DDR3, DDR4, DDR5
\* and Unknown.
C26_MemoryTypeClosed ==
  typed =>
    /\ ret.value \in {T_DDR3, T_DDR4, T_DDR5, T_Unknown}
    /\ Len(call.memLayout) > 0 =>
         LET firstModule == call.memLayout[1] IN
         /\ firstModule.type # <<>> => ret.value = toUpperCase(firstModule.type)
         /\ (firstModule.type = <<>> /\ firstModule.clockSpeed >= 800)
              => ret.value = TypeOfSpeed(firstModule.clockSpeed)
         /\ (firstModule.type = <<>> /\ ~IsNum(firstModule.clockSpeed))
              => ret.value = T_DDR4

\* C26, amended: without any module the type is Unknown; a type reported by
\* the first module is returned upper-cased, whatever it is; without one the
\* type follows the first module's clock speed (>= 4800 DDR5, >= 2133 DDR4,
\* >= 800 DDR3) and is DDR4 when the speed is absent or below 800; only
\* then is the result sure to be one of DDR3, DDR4, DDR5.
C26_MemoryType ==
  typed =>
    IF Len(call.memLayout) = 0 THEN ret.value = T_Unknown
    ELSE LET firstModule == call.memLayout[1] IN
      /\ firstModule.type # <<>> => ret.value = toUpperCase(firstModule.type)
      /\ (firstModule.type = <<>> /\ IsNum(firstModule.clockSpeed))
           => ret.value = TypeOfSpeed(firstModule.clockSpeed)
      /\ (firstModule.type = <<>> /\ ~IsNum(firstModule.clockSpeed))
           => ret.value = T_DDR4
      /\ firstModule.type = <<>> => ret.value \in {T_DDR3, T_DDR4, T_DDR5}

\* a module reported as "lpddr5" running at 4800 MHz is LPDDR5, not DDR5
C26_Witness ==
  /\ typed
  /\ Len(call.memLayout) = 2
  /\ call.memLayout[1] = [type |-> <<"l", "p", "d", "d", "r", "5">>, clockSpeed |-> 4800]
  /\ ret.value = <<"L", "P", "D", "D", "R", "5">>

\* ========================================================================
\* Properties of the loop under overlapping polls
\* ========================================================================
\* C27: no realtime sample is delivered while the loop is IDLE: a step taken
\* with the timer cleared appends nothing to what any subscriber has
\* received, also when a poll had been started before the timer was cleared.
C27_NoSampleWhileIdle == [][IDLE => recv' = recv]_vars

\* C28: at most one poll is in flight at a time, and every subscriber
\* receives the samples in the order in which their ticks fired.
C28_SamplesInTickOrder ==
  /\ Cardinality(inflight) <= 1
  /\ \A c \in Clients : \A i \in 1..Len(recv[c]) : \A j \in 1..Len(recv[c]) :
       i < j => recv[c][i] < recv[c][j]

\* ========================================================================
\* Properties of the cache under overlapping analyses
\* ========================================================================
\* C29: the cache never goes back to an older analysis: when a call of
\* detectHardware() completes after a call that started later (the calls
\* are numbered in the order they start) has completed, it does not
\* overwrite the cached snapshot.
C29_NewestAnalysisWins ==
  [][\A r \in Reqs :
       (task[r].pc # "ok" /\ task'[r].pc = "ok") =>
          \A q \in Reqs :
            (q > r /\ task[q].pc = "ok") => lastAnalysis' = lastAnalysis]_vars

\* ========================================================================
\* Properties of the storage facts
\* ========================================================================
\* C30: in every analysis the storage score is 85 exactly when the reported
\* hardwareSpecs.storage.storageType is SSD and 60 otherwise, also when the
\* inventory lists no drive.
C30_StorageTypeMatchesScore ==
  analysed =>
    ret.value.performanceScores.storageScore =
      IF ret.value.hardwareSpecs.storage.storageType = T_SSD THEN 85 ELSE 60

====
